---- MODULE Spec2Model ----
(***************************************************************************)
(* Model of the ingestion and schedule-resolution code of nodecast-tv:     *)
(*   server/services/m3uParser.js  (generateStableId, parse, parseExtinf)  *)
(*   server/services/epgParser.js  (extractText, getProgrammesForChannel,  *)
(*                                  getCurrentAndUpcoming)                 *)
(*                                                                         *)
(* Strings are sequences of UTF-16 code units, so that charCodeAt, trim,   *)
(* toLowerCase and the 32-bit hash are computed as the code computes them. *)
(* A playlist line is represented after lexing: its prefix (tag) and, for  *)
(* an #EXTINF line, the pieces the regular expressions of parseExtinf      *)
(* extract from it.                                                        *)
(***************************************************************************)
EXTENDS Integers, Sequences, FiniteSets, TLC

VARIABLES
    pc,          \* which call has last completed
    clock,       \* the system clock: Date.now() / new Date()
    content,     \* playlist text handed to m3uParser.parse, as its lines
    result,      \* what the last parse(content) returned or threw
    previous,    \* what the parse(content) before the last one returned
    programmes,  \* the caller's programme array (the object itself)
    original,    \* the elements of that array when it was built
    args,        \* arguments of the last getCurrentAndUpcoming call
    answer,      \* what that call returned
    element,     \* argument of extractText
    text         \* what extractText returned

vars == <<pc, clock, content, result, previous, programmes, original, args,
          answer, element, text>>

-----------------------------------------------------------------------------
(* Bounds of the model *)

MaxLines == 5
MaxBadTail == 2
MaxClock == 1
MaxProgs == 3
MaxEntries == 3

-----------------------------------------------------------------------------
(* JavaScript values *)

\* null / undefined where a string is expected (no code unit is negative)
Null == << -1 >>

\* JavaScript truthiness of a string-or-null value: null and '' are falsy
Truthy(s) == s # Null /\ s # << >>

\* a || b on string-or-null values
Or(a, b) == IF Truthy(a) THEN a ELSE b

Range(s) == {s[k] : k \in 1..Len(s)}

\* Math.max and Math.min, the least and greatest index of a set of indices
Max(S) == CHOOSE m \in S : \A x \in S : x <= m
Min(S) == CHOOSE m \in S : \A x \in S : m <= x

\* String literals of the source, as code units
StrUnknown == <<117, 110, 107, 110, 111, 119, 110>>
StrUncategorized == <<85, 110, 99, 97, 116, 101, 103, 111, 114, 105, 122, 101, 100>>
StrM3u == <<109, 51, 117, 95>>
StrChannel == <<99, 104, 97, 110, 110, 101, 108, 95>>
StrGroup == <<103, 114, 111, 117, 112, 95>>
StrObject == <<91, 111, 98, 106, 101, 99, 116, 32, 79, 98, 106, 101, 99, 116, 93>>
Colon == 58
Underscore == 95

\* White space removed by String.prototype.trim and matched by \s
IsSpace(c) == c \in {9, 10, 11, 12, 13, 32}

RECURSIVE TrimLeft(_)
TrimLeft(s) ==
    IF s # << >> /\ IsSpace(Head(s)) THEN TrimLeft(Tail(s)) ELSE s

RECURSIVE TrimRight(_)
TrimRight(s) ==
    IF s # << >> /\ IsSpace(s[Len(s)])
    THEN TrimRight(SubSeq(s, 1, Len(s) - 1))
    ELSE s

\* String.prototype.trim
Trim(s) == TrimRight(TrimLeft(s))

\* String.prototype.toLowerCase on the ASCII letters
ToLowerCase(s) ==
    [k \in 1..Len(s) |-> IF s[k] \in 65..90 THEN s[k] + 32 ELSE s[k]]

\* s.replace(/\s+/g, '_'): every maximal run of white space becomes one '_'
RECURSIVE ReplaceSpaceRuns(_)
ReplaceSpaceRuns(s) ==
    IF s = << >> THEN << >>
    ELSE IF IsSpace(Head(s))
         THEN <<Underscore>> \o ReplaceSpaceRuns(TrimLeft(s))
         ELSE <<Head(s)>> \o ReplaceSpaceRuns(Tail(s))

\* Number.prototype.toString(10) of a natural number
RECURSIVE Decimal(_)
Decimal(n) ==
    IF n < 10 THEN <<48 + n>> ELSE Decimal(n \div 10) \o <<48 + (n % 10)>>

-----------------------------------------------------------------------------
(* generateStableId: m3uParser.js lines 12-22.  A 32-bit integer is kept   *)
(* as two 16-bit halves [hi, lo] (its two's-complement bit pattern).       *)

Half == 65536

\* hash = ((hash << 5) - hash) + char; hash = hash & hash
HashStep(h, char) ==
    LET t == 31 * h.lo + char
    IN  [lo |-> t % Half, hi |-> (31 * h.hi + t \div Half) % Half]

RECURSIVE HashLoop(_, _)
HashLoop(h, str) ==
    IF str = << >> THEN h ELSE HashLoop(HashStep(h, Head(str)), Tail(str))

\* Math.abs of the signed 32-bit value (abs(-2^31) = 2^31 is kept exactly)
Abs32(h) ==
    IF h.hi < 32768 THEN h
    ELSE [lo |-> (Half - h.lo) % Half,
          hi |-> (Half - 1 - h.hi + (IF h.lo = 0 THEN 1 ELSE 0)) % Half]

Base36Digit(d) == IF d < 10 THEN 48 + d ELSE 87 + d

\* Number.prototype.toString(36) of a value in 0 .. 2^31
RECURSIVE ToString36(_)
ToString36(h) ==
    LET t == (h.hi % 36) * Half + h.lo
        q == [hi |-> h.hi \div 36, lo |-> t \div 36]
    IN  IF q.hi = 0 /\ q.lo = 0
        THEN <<Base36Digit(t % 36)>>
        ELSE ToString36(q) \o <<Base36Digit(t % 36)>>

generateStableId(name, group) ==
    LET str  == Or(name, StrUnknown) \o <<Colon>> \o Or(group, StrUnknown)
        hash == HashLoop([hi |-> 0, lo |-> 0], str)
    IN  StrM3u \o ToString36(Abs32(hash))

-----------------------------------------------------------------------------
(* Playlist lines.  tag is the prefix the scan tests with startsWith:       *)
(*   "EXTM3U"  the line starts with #EXTM3U                                 *)
(*   "EXTINF"  the line starts with #EXTINF:                                *)
(*   "EXTGRP"  the line starts with #EXTGRP:  (text: what follows it)       *)
(*   "HASH"    any other line starting with #                               *)
(*   "TEXT"    a line not starting with #     (text: the whole line)        *)
(* For an #EXTINF line, matched says whether the duration pattern of line   *)
(* 103 matches, duration is its group 1, tvgId .. groupTitle are the        *)
(* captures of                                                              *)
(* the four attribute patterns (Null: no match), comma says whether the     *)
(* rest holds a comma, and tail is the rest after its last comma (the       *)
(* whole rest if it holds none).                                            *)

Line(tag, txt) ==
    [tag |-> tag, text |-> txt, matched |-> FALSE, duration |-> 0,
     tvgId |-> Null, tvgName |-> Null, tvgLogo |-> Null, groupTitle |-> Null,
     comma |-> FALSE, tail |-> << >>]

Extinf(dur, id, tname, logo, grp, hasComma, rest) ==
    [tag |-> "EXTINF", text |-> << >>, matched |-> TRUE, duration |-> dur,
     tvgId |-> id, tvgName |-> tname, tvgLogo |-> logo, groupTitle |-> grp,
     comma |-> hasComma, tail |-> rest]

\* "#EXTM3U"
LineHeader == Line("EXTM3U", << >>)
\* ""
LineBlank == Line("TEXT", << >>)
\* "#EXTVLCOPT:..." or any other directive
LineComment == Line("HASH", << >>)
\* "u\r"
LineUrl == Line("TEXT", <<117, 13>>)
\* "#EXTGRP: H"
LineGrpH == Line("EXTGRP", <<32, 72>>)
\* "#EXTGRP:"
LineGrpEmpty == Line("EXTGRP", << >>)
\* "#EXTINF:-1 group-title=\"G\",A"
LineInfGA == Extinf(-1, Null, Null, Null, <<71>>, TRUE, <<65>>)
\* "#EXTINF:-1 tvg-id=\"x\" tvg-name=\"B c\" tvg-logo=\"l\""
LineInfIdB ==
    Extinf(-1, <<120>>, <<66, 32, 99>>, <<108>>, Null, FALSE, <<116, 118, 103>>)
\* "#EXTINF:0 group-title=\"\","
LineInfEmpty == Extinf(0, Null, Null, Null, << >>, TRUE, << >>)
\* "#EXTINF:abc"
LineInfBad == Line("EXTINF", << >>)

FirstLines == {LineHeader, LineBlank, LineInfGA}

BodyLines ==
    {LineBlank, LineComment, LineUrl, LineGrpH, LineGrpEmpty,
     LineInfGA, LineInfIdB, LineInfEmpty, LineInfBad}

SeqsUpTo(S, n) == UNION {[1..k -> S] : k \in 0..n}

\* Playlist texts: a first line followed by body lines.  Texts whose first
\* line is the header get up to MaxLines lines, the others a shorter tail.
Contents ==
    {<<f>> \o b : f \in {LineHeader}, b \in SeqsUpTo(BodyLines, MaxLines - 1)}
    \cup
    {<<f>> \o b : f \in FirstLines \ {LineHeader},
                  b \in SeqsUpTo(BodyLines \cup {LineHeader}, MaxBadTail)}

-----------------------------------------------------------------------------
(* parseExtinf: m3uParser.js lines 92-139 *)

parseExtinf(line, now) ==
    LET info == [duration |-> -1, tvgId |-> Null, tvgName |-> Null,
                 tvgLogo |-> Null, groupTitle |-> Null, name |-> Null]
        \* for (const [key, pattern] of ...) if (attrMatch) info[key] = ...
        attrs == [info EXCEPT !.duration = line.duration,
                              !.tvgId = line.tvgId,
                              !.tvgName = line.tvgName,
                              !.tvgLogo = line.tvgLogo,
                              !.groupTitle = line.groupTitle]
        name  == IF line.comma
                 THEN Trim(line.tail)
                 ELSE Or(attrs.tvgName, Trim(line.tail))
        named == [attrs EXCEPT !.name = name]
    IN  IF ~line.matched THEN info
        ELSE IF Truthy(named.tvgId) THEN named
        ELSE [named EXCEPT !.tvgId =
                 IF Truthy(name)
                 THEN ReplaceSpaceRuns(ToLowerCase(name))
                 ELSE StrChannel \o Decimal(now)]

-----------------------------------------------------------------------------
(* parse: m3uParser.js lines 29-85 *)

\* currentInfo = null
NoInfo == [null |-> TRUE]

\* Set.prototype.add on an insertion-ordered Set, kept as a sequence
SetAdd(set, x) == IF x \in Range(set) THEN set ELSE Append(set, x)

\* lines = content.split('\n').map(line => line.trim()): text is the whole
\* line when it has no prefix, and the end of the line when it has one
TrimLines(raw) ==
    [k \in 1..Len(raw) |->
        [raw[k] EXCEPT !.text = IF raw[k].tag = "TEXT"
                                THEN Trim(@)
                                ELSE TrimRight(@)]]

\* Variant of HeaderOk: blank lines before the header line are skipped
HeaderOkSkippingBlanks(lines) ==
    \E k \in 1..Len(lines) :
        /\ lines[k].tag = "EXTM3U"
        /\ \A j \in 1..(k - 1) : lines[j].tag = "TEXT" /\ lines[j].text = << >>

\* !(!lines[0] || !lines[0].startsWith('#EXTM3U'))
HeaderOk(lines) == lines[1].tag = "EXTM3U"

\* Variant of ScanExtinf: the group-title is not recorded as current group
ScanExtinfNoCarry(st, line, now) ==
    LET info == parseExtinf(line, now)
    IN  IF Truthy(info.groupTitle)
        THEN [st EXCEPT !.currentInfo = info,
                        !.groupsSet = SetAdd(@, info.groupTitle)]
        ELSE [st EXCEPT !.currentInfo = info]

\* line.startsWith('#EXTINF:') branch, lines 45-51
ScanExtinf(st, line, now) ==
    LET info == parseExtinf(line, now)
    IN  IF Truthy(info.groupTitle)
        THEN [st EXCEPT !.currentInfo = info,
                        !.groupsSet = SetAdd(@, info.groupTitle),
                        !.currentGroup = info.groupTitle]
        ELSE [st EXCEPT !.currentInfo = info]

\* line.startsWith('#EXTGRP:') branch, lines 52-58
ScanExtgrp(st, line) ==
    LET grp == Trim(line.text)
    IN  [st EXCEPT !.currentGroup = grp,
                   !.groupsSet = SetAdd(@, grp),
                   !.currentInfo = IF @ # NoInfo
                                   THEN [@ EXCEPT !.groupTitle = grp]
                                   ELSE @]

\* Variant of StableId: the hash takes the descriptor's own group-title
\* instead of the resolved one
StableIdOwnGroup(info, groupTitle) ==
    Or(info.tvgId, generateStableId(info.name, info.groupTitle))

\* the id of a finalized channel, line 64
StableId(info, groupTitle) ==
    Or(info.tvgId, generateStableId(info.name, groupTitle))

\* stream URL branch, lines 59-74
ScanUrl(st, line) ==
    IF st.currentInfo = NoInfo THEN st
    ELSE LET info == st.currentInfo
             groupTitle ==
                 Or(info.groupTitle, Or(st.currentGroup, StrUncategorized))
             channel ==
                 [duration |-> info.duration, tvgId |-> info.tvgId,
                  tvgName |-> info.tvgName, tvgLogo |-> info.tvgLogo,
                  name |-> info.name, id |-> StableId(info, groupTitle),
                  url |-> line.text, groupTitle |-> groupTitle]
         IN  [st EXCEPT !.channels = Append(@, channel),
                        !.currentInfo = NoInfo]

\* Variant of ScanOther: a # line that is no directive drops the pending
\* descriptor
ScanOtherDropsPending(st, line) ==
    IF line.tag \in {"HASH", "EXTM3U"}
    THEN [st EXCEPT !.currentInfo = NoInfo]
    ELSE st

\* a line that matches no branch: blank, or a # line that is no directive
ScanOther(st, line) == st

\* the body of the for loop, lines 43-74
ScanLine(st, line, now) ==
    IF line.tag = "EXTINF" THEN ScanExtinf(st, line, now)
    ELSE IF line.tag = "EXTGRP" THEN ScanExtgrp(st, line)
    ELSE IF line.text # << >> /\ line.tag = "TEXT" THEN ScanUrl(st, line)
    ELSE ScanOther(st, line)

\* for (let i = 1; i < lines.length; i++), with i counted from 1 here
RECURSIVE ScanFrom(_, _, _, _)
ScanFrom(st, lines, i, now) ==
    IF i > Len(lines) THEN st
    ELSE ScanFrom(ScanLine(st, lines[i], now), lines, i + 1, now)

\* channels.filter(c => c.groupTitle === name).length
ChannelCount(channels, name) ==
    Cardinality({k \in 1..Len(channels) : channels[k].groupTitle = name})

\* Array.from(groupsSet).map((name, index) => ...), lines 78-82
BuildGroups(groupsSet, channels) ==
    [k \in 1..Len(groupsSet) |->
        [id |-> StrGroup \o Decimal(k - 1),
         name |-> groupsSet[k],
         channelCount |-> ChannelCount(channels, groupsSet[k])]]

parse(raw, now) ==
    LET lines == TrimLines(raw)
        init  == [currentInfo |-> NoInfo, currentGroup |-> Null,
                  channels |-> << >>, groupsSet |-> << >>]
        st    == ScanFrom(init, lines, 2, now)
    IN  IF ~HeaderOk(lines)
        THEN [status |-> "error", channels |-> << >>, groups |-> << >>]
        ELSE [status |-> "ok", channels |-> st.channels,
              groups |-> BuildGroups(st.groupsSet, st.channels)]

-----------------------------------------------------------------------------
(* The playlist parser as a state machine: a caller holds a playlist text  *)
(* and calls parse on it, any number of times, at non-decreasing times.    *)

Unused == << >>

NoResult == [status |-> "none", channels |-> << >>, groups |-> << >>]

Init ==
    /\ pc = "ready"
    /\ clock = 0
    /\ content \in Contents
    /\ result = NoResult
    /\ previous = NoResult
    /\ programmes = Unused /\ original = Unused
    /\ args = Unused /\ answer = Unused
    /\ element = Unused /\ text = Unused

\* parse(content), with Date.now() reading now, a time not before the last
Parse(now) ==
    /\ clock' = now
    /\ result' = parse(content, now)
    /\ previous' = result
    /\ pc' = "parsed"
    /\ UNCHANGED <<content, programmes, original, args, answer, element, text>>

Next == \E now \in clock..MaxClock : Parse(now)

Spec == Init /\ [][Next]_vars

-----------------------------------------------------------------------------
(* Vocabulary of the playlist claims, read off the input text alone *)

Lines == TrimLines(content)

Accepted == pc = "parsed" /\ result.status = "ok"

Body == 2..Len(Lines)

IsExtinf(k) == Lines[k].tag = "EXTINF"
IsExtgrp(k) == Lines[k].tag = "EXTGRP"
IsBlankLine(k) == Lines[k].tag = "TEXT" /\ Lines[k].text = << >>
IsUrl(k) == Lines[k].tag = "TEXT" /\ Lines[k].text # << >>

RECURSIVE Ascending(_)
Ascending(S) ==
    IF S = {} THEN << >> ELSE <<Min(S)>> \o Ascending(S \ {Min(S)})

\* the metadata line a URL line u terminates: the last one before it (0: none)
MetaOf(u) ==
    LET es == {e \in Body : e < u /\ IsExtinf(e)}
    IN  IF es = {} THEN 0 ELSE Max(es)

\* URL line u finalizes a channel: a metadata line precedes it with no URL
\* line in between
Finalizes(u) ==
    /\ IsUrl(u)
    /\ MetaOf(u) # 0
    /\ \A k \in (MetaOf(u) + 1)..(u - 1) : ~IsUrl(k)

FinalizingUrls == Ascending({u \in Body : Finalizes(u)})

-----------------------------------------------------------------------------
(* Claims about the playlist parser, checked under Spec *)

RECURSIVE SumChannelCounts(_)
SumChannelCounts(groups) ==
    IF groups = << >> THEN 0
    ELSE Head(groups).channelCount + SumChannelCounts(Tail(groups))

\* C1: for every accepted playlist text, the channelCount of the returned
\* groups sum to the number of returned channels (channels that fall back
\* to "Uncategorized" included).
C1_GroupAccounting ==
    Accepted => SumChannelCounts(result.groups) = Len(result.channels)

\* C2: two parses of the same playlist text, at any two times, give the
\* same id to every channel, position by position, also for entries with
\* no tvg-id attribute and an empty display name.
C2_IdentifierStability ==
    (Accepted /\ previous.status = "ok") =>
        /\ Len(result.channels) = Len(previous.channels)
        /\ \A k \in 1..Len(result.channels) :
               result.channels[k].id = previous.channels[k].id

\* the first non-empty line of the text begins with #EXTM3U
FirstNonEmptyIsHeader ==
    \E k \in 1..Len(Lines) :
        /\ Lines[k].tag = "EXTM3U"
        /\ \A j \in 1..(k - 1) : Lines[j].tag = "TEXT" /\ Lines[j].text = << >>

\* C3 as stated: parse fails exactly when the first non-empty line of the
\* text does not begin with #EXTM3U.
C3_FailsIffFirstNonEmptyLineNotHeader ==
    pc = "parsed" => (result.status = "error" <=> ~FirstNonEmptyIsHeader)

\* C3 amended: parse fails exactly when the first line of the text, trimmed,
\* does not begin with #EXTM3U (an empty first line included), and fails in
\* no other way.
C3_FailsIffFirstLineNotHeader ==
    pc = "parsed" =>
        /\ result.status \in {"ok", "error"}
        /\ result.status = "error" <=> Lines[1].tag # "EXTM3U"

\* C3 witness: a text whose header line follows a blank line was rejected.
C3_Witness ==
    /\ pc = "parsed"
    /\ Len(content) >= 2
    /\ content[1] = LineBlank
    /\ content[2] = LineHeader
    /\ result.status = "error"

\* metadata lines followed by a URL line with only lines from between(k)
\* allowed in between
MetaFollowedByUrl(between(_)) ==
    {e \in Body : /\ IsExtinf(e)
                  /\ \E u \in Body : /\ u > e
                                     /\ IsUrl(u)
                                     /\ \A k \in (e + 1)..(u - 1) : between(k)}

BlankOrGroup(k) == IsBlankLine(k) \/ IsExtgrp(k)

NeitherMetaNorUrl(k) == ~IsExtinf(k) /\ ~IsUrl(k)

\* C4 as stated: the number of channels is the number of #EXTINF lines
\* followed by a URL line with only blank and #EXTGRP lines in between.
C4_CountBlankOrGroupBetween ==
    Accepted =>
        Len(result.channels) = Cardinality(MetaFollowedByUrl(BlankOrGroup))

\* C4 amended: the number of channels is the number of #EXTINF lines
\* followed by a URL line with no other #EXTINF line and no other URL line
\* in between (blank lines, #EXTGRP lines and other # lines may lie there).
C4_CountNoMetaNoUrlBetween ==
    Accepted =>
        Len(result.channels) = Cardinality(MetaFollowedByUrl(NeitherMetaNorUrl))

\* C4 witness: a channel was emitted for a metadata line separated from its
\* URL line by a # line that is no directive.
C4_Witness ==
    /\ Accepted
    /\ Len(result.channels) = 1
    /\ \E e \in Body :
          /\ e + 2 <= Len(Lines)
          /\ IsExtinf(e)
          /\ Lines[e + 1].tag = "HASH"
          /\ IsUrl(e + 2)

\* C5: every emitted channel's id is its tvgId field when that is present
\* and non-empty, and otherwise the stable hash of its name and its final
\* groupTitle.
C5_ChannelId ==
    Accepted =>
        \A k \in 1..Len(result.channels) :
            LET c == result.channels[k]
            IN  c.id = IF c.tvgId # Null /\ c.tvgId # << >>
                       THEN c.tvgId
                       ELSE generateStableId(c.name, c.groupTitle)

\* C5 witness: one channel took its id from tvgId, another from the hash
\* of its (absent) name and a group it did not specify itself.
C5_Witness ==
    /\ Accepted
    /\ \E j, k \in 1..Len(result.channels) :
          /\ result.channels[j].id = result.channels[j].tvgId
          /\ result.channels[k].tvgId = Null
          /\ result.channels[k].groupTitle = StrUncategorized
          /\ result.channels[k].id = generateStableId(Null, StrUncategorized)

\* the distinct values of a sequence, in order of first appearance
RECURSIVE Distinct(_)
Distinct(s) ==
    IF s = << >> THEN << >>
    ELSE LET d == Distinct(SubSeq(s, 1, Len(s) - 1))
         IN  IF s[Len(s)] \in Range(d) THEN d ELSE Append(d, s[Len(s)])

\* C7: the returned groups are exactly the distinct groupTitles of the
\* emitted channels, each once, in order of first appearance, each with
\* channelCount >= 1, the N-th (from 0) with id "group_N".
C7_GroupsAreTitlesUsed ==
    Accepted =>
        LET titles ==
                Distinct([k \in 1..Len(result.channels) |->
                             result.channels[k].groupTitle])
        IN  /\ Len(result.groups) = Len(titles)
            /\ \A n \in 1..Len(result.groups) :
                   /\ result.groups[n].name = titles[n]
                   /\ result.groups[n].channelCount >= 1
                   /\ result.groups[n].id = StrGroup \o Decimal(n - 1)

\* the group a line specifies: the text of an #EXTGRP line without the
\* white space around it, the group-title attribute of an #EXTINF line
\* (Null: it specifies none)
GroupSpecified(k) ==
    IF IsExtgrp(k) THEN Trim(Lines[k].text)
    ELSE IF IsExtinf(k) /\ Lines[k].matched THEN Lines[k].groupTitle
    ELSE Null

\* the descriptor's own group at URL line u: the text of the last #EXTGRP
\* line after its metadata line, else the metadata line's group-title
OwnGroup(u) ==
    LET gs == {k \in (MetaOf(u) + 1)..(u - 1) : IsExtgrp(k)}
    IN  IF gs # {} THEN GroupSpecified(Max(gs)) ELSE GroupSpecified(MetaOf(u))

\* the current group at URL line u: that of the most recent earlier line
\* that specified one (an #EXTGRP line, or a non-empty group-title)
CarriedGroup(u) ==
    LET ks == {k \in Body : /\ k < u
                            /\ \/ IsExtgrp(k)
                               \/ IsExtinf(k) /\ Truthy(GroupSpecified(k))}
    IN  IF ks = {} THEN Null ELSE GroupSpecified(Max(ks))

ResolvedGroup(u) ==
    IF Truthy(OwnGroup(u)) THEN OwnGroup(u)
    ELSE IF Truthy(CarriedGroup(u)) THEN CarriedGroup(u)
    ELSE StrUncategorized

\* C8: the channel finalized by a URL line has as groupTitle the
\* descriptor's own group (its group-title attribute or the text of a later
\* #EXTGRP line, the later winning), else the group carried over from the
\* most recent earlier line that specified one, else "Uncategorized".
C8_GroupResolution ==
    Accepted =>
        /\ Len(result.channels) = Len(FinalizingUrls)
        /\ \A k \in 1..Len(result.channels) :
               result.channels[k].groupTitle = ResolvedGroup(FinalizingUrls[k])

\* C8 witness: the group set by the first entry was carried to a second
\* entry that specifies none.
C8_Witness ==
    /\ Accepted
    /\ content = <<LineHeader, LineInfGA, LineUrl, LineInfIdB, LineUrl>>
    /\ Len(result.channels) = 2
    /\ result.channels[2].groupTitle = <<71>>

-----------------------------------------------------------------------------
(* Schedule resolver: epgParser.js lines 136-157.  A programme carries     *)
(* channelId, start and stop (instants, in clock units) and a title.       *)

Programme(ch, from, to, name) ==
    [channelId |-> ch, start |-> from, stop |-> to, title |-> name]

Programmes ==
    {Programme("c1", 0, 2, "p"), Programme("c1", 1, 3, "q"),
     Programme("c1", 1, 2, "r"), Programme("c1", 2, 3, "s"),
     Programme("c2", 0, 3, "t"), Programme("c2", 2, 3, "v")}

ChannelIds == {"c1", "c2", "c3"}

\* instants at which the clock is read
Times == {p.start : p \in Programmes} \cup {p.stop : p \in Programmes}

\* the count argument: << >> when the caller passes none
CountArgs == {<< >>, << -1 >>, <<0>>, <<1>>, <<2>>}

\* count = 5
DefaultCount == 5

\* Array.prototype.find found nothing
Undefined == [undefined |-> TRUE]

\* Variant of getProgrammesForChannel: the caller's array itself is
\* filtered and returned
getProgrammesForChannelInPlace(progs, channelId) ==
    [array |-> "programmes",
     items |-> LET Match(p) == p.channelId = channelId
               IN  SelectSeq(progs, Match)]

\* getProgrammesForChannel: array says which array object is returned, a
\* "new" one or the caller's "programmes"
getProgrammesForChannel(progs, channelId) ==
    [array |-> "new",
     items |-> LET Match(p) == p.channelId = channelId
               IN  SelectSeq(progs, Match)]

\* insertion of p after every element that does not start later
RECURSIVE InsertByStart(_, _)
InsertByStart(sorted, p) ==
    IF sorted = << >> THEN <<p>>
    ELSE IF Head(sorted).start - p.start <= 0
         THEN <<Head(sorted)>> \o InsertByStart(Tail(sorted), p)
         ELSE <<p>> \o sorted

\* Variant of SortByStart: the programmes are left in list order
SortByStartSkipped(items) == items

\* items.sort((a, b) => a.start - b.start): Array.prototype.sort is stable
RECURSIVE SortByStart(_)
SortByStart(items) ==
    IF items = << >> THEN << >>
    ELSE InsertByStart(SortByStart(SubSeq(items, 1, Len(items) - 1)),
                       items[Len(items)])

\* channelProgrammes.find(p => p.start <= now && p.stop > now)
FindCurrent(s, now) ==
    LET hits == {k \in 1..Len(s) : s[k].start <= now /\ s[k].stop > now}
    IN  IF hits = {} THEN Undefined ELSE s[Min(hits)]

\* channelProgrammes.filter(p => p.start > now)
FilterUpcoming(s, now) ==
    LET IsUpcoming(p) == p.start > now IN SelectSeq(s, IsUpcoming)

\* Array.prototype.slice(0, end)
Slice0(s, end) ==
    LET to == IF end < 0 THEN Max({Len(s) + end, 0}) ELSE Min({end, Len(s)})
    IN  SubSeq(s, 1, to)

\* the state of the arrays and the value returned by
\* getCurrentAndUpcoming(programmes, channelId, count) when the clock reads now
getCurrentAndUpcoming(progs, channelId, countArg, now) ==
    LET count == IF countArg = << >> THEN DefaultCount ELSE countArg[1]
        got == getProgrammesForChannel(progs, channelId)
        channelProgrammes == SortByStart(got.items)
    IN  [programmes |-> IF got.array = "programmes"
                        THEN channelProgrammes
                        ELSE progs,
         returned |-> [current |-> FindCurrent(channelProgrammes, now),
                       upcoming |-> Slice0(FilterUpcoming(channelProgrammes, now),
                                           count)]]

InitResolver ==
    /\ pc = "ready"
    /\ clock = 0
    /\ programmes \in SeqsUpTo(Programmes, MaxProgs)
    /\ original = programmes
    /\ args = Unused
    /\ answer = Unused
    /\ content = Unused /\ result = Unused /\ previous = Unused
    /\ element = Unused /\ text = Unused

\* A caller who wants the schedule at referenceTime calls
\* getCurrentAndUpcoming(programmes, channelId, count); the function has no
\* parameter for the time and reads the clock.
Resolve(channelId, referenceTime, countArg, now) ==
    LET call == getCurrentAndUpcoming(programmes, channelId, countArg, now)
    IN  /\ pc = "ready"
        /\ clock' = now
        /\ programmes' = call.programmes
        /\ answer' = call.returned
        /\ args' = [channelId |-> channelId, referenceTime |-> referenceTime,
                    count |-> countArg]
        /\ pc' = "resolved"
        /\ UNCHANGED <<original, content, result, previous, element, text>>

NextResolver ==
    \E channelId \in ChannelIds, referenceTime \in Times,
       countArg \in CountArgs, now \in {t \in Times : t >= clock} :
        Resolve(channelId, referenceTime, countArg, now)

SpecResolver == InitResolver /\ [][NextResolver]_vars

-----------------------------------------------------------------------------
(* Claims about the resolver, checked under SpecResolver *)

Resolved == pc = "resolved"

\* positions in the caller's list of the programmes of the channel asked for
OfChannel == {k \in 1..Len(original) : original[k].channelId = args.channelId}

\* ascending start order, programmes with equal start in list order
Precedes(i, j) ==
    \/ original[i].start < original[j].start
    \/ original[i].start = original[j].start /\ i < j

\* the programmes at the positions S, in ascending start order
RECURSIVE InStartOrder(_)
InStartOrder(S) ==
    IF S = {} THEN << >>
    ELSE LET first == CHOOSE i \in S : \A j \in S \ {i} : Precedes(i, j)
         IN  <<original[first]>> \o InStartOrder(S \ {first})

CurrentAt(t) ==
    LET on == InStartOrder({k \in OfChannel : /\ original[k].start <= t
                                              /\ t < original[k].stop})
    IN  IF on = << >> THEN Undefined ELSE on[1]

UpcomingAt(t, count) ==
    LET later == InStartOrder({k \in OfChannel : original[k].start > t})
    IN  SubSeq(later, 1, IF count < Len(later) THEN count ELSE Len(later))

CountAsked == IF args.count = << >> THEN DefaultCount ELSE args.count[1]

C10_InputUnchanged == programmes = original

\* C10 witness: the call was made on a list that is not sorted by start and
\* holds programmes of two channels, and returned programmes in another
\* order than the list's.
C10_Witness ==
    /\ Resolved
    /\ programmes = <<Programme("c1", 2, 3, "s"), Programme("c2", 0, 3, "t"),
                      Programme("c1", 1, 3, "q")>>
    /\ answer.upcoming = <<Programme("c1", 1, 3, "q"), Programme("c1", 2, 3, "s")>>

-----------------------------------------------------------------------------
(* extractText: epgParser.js lines 95-106.  A value of the tree xml2js     *)
(* builds is a node:                                                       *)
(*   type "null"    null or undefined                                      *)
(*   type "string"  a string, str                                          *)
(*   type "object"  an element with attributes: lang (Null: none), its     *)
(*                  text under _ or under #text (Null: absent)             *)
(*   type "array"   repeated elements, items                               *)

Node(type, str, lang, under, hashText, items) ==
    [type |-> type, str |-> str, lang |-> lang, under |-> under,
     hashText |-> hashText, items |-> items]

NodeNull == Node("null", Null, Null, Null, Null, << >>)
NodeString(str) == Node("string", str, Null, Null, Null, << >>)
NodeObject(lang, under, hashText) ==
    Node("object", Null, lang, under, hashText, << >>)
NodeArray(items) == Node("array", Null, Null, Null, Null, items)

LangEn == <<101, 110>>
LangFr == <<102, 114>>

\* entries of a list of language-tagged elements
Entries ==
    {NodeString(<<97>>),
     NodeObject(LangEn, <<98>>, Null),
     NodeObject(LangFr, <<99>>, Null),
     NodeObject(Null, <<100>>, Null),
     NodeObject(LangEn, Null, <<101>>),
     NodeObject(LangFr, Null, Null)}

Elements ==
    {NodeNull, NodeString(<< >>)} \cup Entries
    \cup {NodeArray(items) : items \in SeqsUpTo(Entries, MaxEntries)}

\* !element
Falsy(node) ==
    \/ node.type = "null"
    \/ node.type = "string" /\ node.str = << >>

\* e.lang === 'en' || !e.lang  (a string has no lang property)
EnglishOrUntagged(e) == e.lang = LangEn \/ ~Truthy(e.lang)

RECURSIVE extractText(_)
extractText(node) ==
    IF Falsy(node) THEN Null
    ELSE IF node.type = "string" THEN node.str
    ELSE IF node.type = "array"
         THEN LET hits == {k \in 1..Len(node.items) :
                              EnglishOrUntagged(node.items[k])}
                  en == IF hits = {} THEN NodeNull ELSE node.items[Min(hits)]
                  first == IF node.items = << >> THEN NodeNull
                           ELSE node.items[1]
              IN  extractText(IF Falsy(en) THEN first ELSE en)
    ELSE IF Truthy(node.under) THEN node.under
    ELSE IF Truthy(node.hashText) THEN node.hashText
    ELSE StrObject

InitText ==
    /\ pc = "ready"
    /\ element \in Elements
    /\ text = Unused
    /\ clock = 0
    /\ content = Unused /\ result = Unused /\ previous = Unused
    /\ programmes = Unused /\ original = Unused
    /\ args = Unused /\ answer = Unused

ExtractText ==
    /\ pc = "ready"
    /\ text' = extractText(element)
    /\ pc' = "extracted"
    /\ UNCHANGED <<clock, content, result, previous, programmes, original,
                   args, answer, element>>

NextText == ExtractText

SpecText == InitText /\ [][NextText]_vars

-----------------------------------------------------------------------------
(* Claim about extractText, checked under SpecText *)

FirstOf(items, Test(_)) ==
    items[Min({k \in 1..Len(items) : Test(items[k])})]

\* C9: for a list of language-tagged entries, extractText returns the text
\* of the entry tagged English if there is one, otherwise that of an entry
\* with no language tag, otherwise that of the first entry, whatever the
\* order of the entries.
C9_EnglishThenUntaggedThenFirst ==
    (pc = "extracted" /\ element.type = "array" /\ element.items # << >>) =>
        LET items == element.items
            IsEnglish(e) == e.lang = LangEn
            IsUntagged(e) == e.lang = Null
        IN  text =
              IF \E k \in 1..Len(items) : IsEnglish(items[k])
              THEN extractText(FirstOf(items, IsEnglish))
              ELSE IF \E k \in 1..Len(items) : IsUntagged(items[k])
                   THEN extractText(FirstOf(items, IsUntagged))
                   ELSE extractText(items[1])

====
